---- MODULE Spec2Model ----
(***************************************************************************)
(* Model of the scan-and-harvest pipeline of src/src/scraper.ts:           *)
(* scrapeJobs, scanJobIdsParallel, isValidJobId and scrapeJobDetails.      *)
(*                                                                         *)
(* The coordinating flow is a program counter (pc); every probe of a scan  *)
(* batch and every item of a harvest chunk is a task with its own status,  *)
(* so the tasks of a batch interleave freely and settle in any order.      *)
(* Texts are sequences of words, so that String.includes is a search for   *)
(* a contiguous run of words and String.trim strips blank words.           *)
(***************************************************************************)
EXTENDS Integers, Sequences, FiniteSets

(***************************************************************************)
(* Batch sizes and the stopping threshold.  The source sets them to 10,    *)
(* 100 and 10 (scraper.ts lines 121, 120 and 7); the code is parametric in *)
(* them and the model checks it at small values.                           *)
(***************************************************************************)
scanConcurrency == 2
maxConsecutiveInvalid == 3
CONCURRENCY_LIMIT == 2

(***************************************************************************)
(* Bounds of the inputs: the identifiers that may hold a record, the       *)
(* largest limit, and the number of faults injected in one run.            *)
(***************************************************************************)
MaxId == 11
IdCount == 5
MaxLimit == 2
MaxFaults == 1

Ids == (MaxId - IdCount + 1)..MaxId
StartIds == {MaxId - 1, MaxId}
\* limit?: number is the empty set when undefined, else the singleton {n}
Limits == {{}} \cup {{n} : n \in 0..MaxLimit}

-----------------------------------------------------------------------------
(* Texts *)

Blank == " "

\* String.prototype.includes(marker), marker a run of words
Includes(text, marker) ==
  \E k \in 1..(Len(text) - Len(marker) + 1) :
     SubSeq(text, k, k + Len(marker) - 1) = marker

RECURSIVE TrimStart(_)
TrimStart(text) ==
  IF text # <<>> /\ Head(text) = Blank THEN TrimStart(Tail(text)) ELSE text

RECURSIVE TrimEnd(_)
TrimEnd(text) ==
  IF text # <<>> /\ text[Len(text)] = Blank
  THEN TrimEnd(SubSeq(text, 1, Len(text) - 1))
  ELSE text

\* String.prototype.trim()
Trim(text) == TrimEnd(TrimStart(text))

DigitChars == <<"0", "1", "2", "3", "4", "5", "6", "7", "8", "9">>

RECURSIVE NatToString(_)
NatToString(n) ==
  IF n < 10 THEN <<DigitChars[n + 1]>>
  ELSE NatToString(n \div 10) \o <<DigitChars[(n % 10) + 1]>>

\* Number.prototype.toString(): the decimal digits, most significant first
toString(n) == IF n < 0 THEN <<"-">> \o NatToString(0 - n) ELSE NatToString(n)

-----------------------------------------------------------------------------
(* The validity predicate of a probe *)

GoodHeading == <<"Program", "Officer">>
\* what the h1 of a page without a record may hold; {} is a page without h1
BadHeadings == {{}, {<<>>}, {<<"Error">>}, {<<"Server", "Error">>},
                {<<"Untitled">>}, {<<"Untitled", "Page">>}}

\* isValidJobId: gotoOk is FALSE when page.goto throws; h1 is the heading
\* innerText reads, {} when the read fails and .catch(() => '') answers
isValidJobId(gotoOk, h1) ==
  IF ~gotoOk THEN FALSE
  ELSE LET title == IF h1 = {} THEN <<>> ELSE CHOOSE t \in h1 : TRUE
       IN  /\ Len(title) > 0
           /\ ~Includes(title, <<"Error">>)
           /\ ~Includes(title, <<"Untitled">>)

-----------------------------------------------------------------------------
(* scrapeJobDetails: extraction of a record from a detail page.  A page is *)
(* what the locators and the regular expression see: h1, h5, location and  *)
(* deadline are {} when the element is missing (innerText throws and the  *)
(* .catch answers the default) and {text} otherwise; sectorMatch is {} or  *)
(* {groups} with groups the one or two captured sector texts; body is the  *)
(* lines of the body's innerText.                                          *)

\* locator.innerText().catch(() => fallback)
InnerTextOr(element, fallback) ==
  IF element = {} THEN fallback ELSE CHOOSE t \in element : TRUE

\* String.prototype.replace(word, ''): the first occurrence is removed
RECURSIVE Replace(_, _)
Replace(text, word) ==
  IF text = <<>> THEN <<>>
  ELSE IF Head(text) = word THEN Tail(text)
  ELSE <<Head(text)>> \o Replace(Tail(text), word)

\* value || fallback on strings: the empty string is falsy
OrElse(text, fallback) == IF text = <<>> THEN fallback ELSE text

BASE_URL == <<"https://devnetjobsindia.org">>
JobUrl(jobId) == BASE_URL \o <<"/JobDescription.aspx?Job_Id=">> \o jobId

\* lines 196-210: the captured groups that are non-empty, trimmed
ExtractSectors(sectorMatch) ==
  IF sectorMatch = {} THEN <<>>
  ELSE LET groups == CHOOSE g \in sectorMatch : TRUE
           kept == SelectSeq(groups, LAMBDA g : g # <<>> /\ ~Includes(g, <<"<">>))
       IN  [k \in 1..Len(kept) |-> Trim(kept[k])]

\* lines 222-234: the loop over the lines, from line k on
RECURSIVE DescLines(_, _, _, _)
DescLines(lines, k, title, inDescription) ==
  IF k > Len(lines) THEN <<>>
  ELSE LET trimmed == Trim(lines[k])
       IN  IF trimmed = Trim(title)
           THEN DescLines(lines, k + 1, title, TRUE)
           ELSE IF \/ Includes(trimmed, <<"View", "Similar", "Jobs:">>)
                   \/ Includes(trimmed, <<"Subscribe", "to", "Value", "Membership">>)
           THEN <<>>
           ELSE IF inDescription /\ trimmed # <<>>
           THEN <<trimmed>> \o DescLines(lines, k + 1, title, inDescription)
           ELSE DescLines(lines, k + 1, title, inDescription)

NewLine == "\n"

\* Array.prototype.join('\n')
RECURSIVE Join(_)
Join(lines) ==
  IF lines = <<>> THEN <<>>
  ELSE IF Len(lines) = 1 THEN lines[1]
  ELSE lines[1] \o <<NewLine>> \o Join(Tail(lines))

\* lines 213-239
ExtractDescription(body, title) == Trim(Join(DescLines(body, 1, title, FALSE)))

\* the check without its look at the description
IsSoftErrorNoDescription(title, organization, description) ==
  \/ Includes(title, <<"Server", "Error">>)
  \/ Includes(title, <<"403", "-", "Forbidden">>)
  \/ Includes(organization, <<"Server", "Error">>)

\* lines 242-245: the check for server-error and forbidden pages
IsSoftError(title, organization, description) ==
  \/ Includes(title, <<"Server", "Error">>)
  \/ Includes(title, <<"403", "-", "Forbidden">>)
  \/ Includes(organization, <<"Server", "Error">>)
  \/ Includes(description, <<"403", "-", "Forbidden">>)

\* lines 177-260, after page.goto has succeeded: <<>> is null, <<job>> a Job
scrapeJobDetails(page, jobId) ==
  LET title == InnerTextOr(page.h1, <<"Unknown", "Title">>)
      organization == InnerTextOr(page.h5, <<"Unknown", "Organization">>)
      locationText == InnerTextOr(page.location, <<"Location:", Blank, "India">>)
      location == OrElse(Trim(Replace(locationText, "Location:")), <<"India">>)
      deadlineText == InnerTextOr(page.deadline, <<"Apply by:", Blank, "Unknown">>)
      deadline == OrElse(Trim(Replace(deadlineText, "Apply by:")), <<"Unknown">>)
      sectors == ExtractSectors(page.sectorMatch)
      description == ExtractDescription(page.body, title)
  IN  IF IsSoftError(title, organization, description) THEN <<>>
      ELSE << [externalId |-> jobId,
               title |-> Trim(title),
               organization |-> Trim(organization),
               location |-> Trim(location),
               deadline |-> Trim(deadline),
               sectors |-> IF Len(sectors) > 0 THEN sectors ELSE <<<<"General">>>>,
               description |-> Trim(description),
               originalUrl |-> JobUrl(jobId)] >>

\* jobIds.slice(i, i + CONCURRENCY_LIMIT): the positions (from 1) of the chunk
ChunkItems(i, ids) == {k \in 1..Len(ids) : i < k /\ k <= i + CONCURRENCY_LIMIT}

\* the results of the chunk, last item first
ChunkResultsReversed(i, ids, result) ==
  [j \in 1..Cardinality(ChunkItems(i, ids)) |->
     result[i + Cardinality(ChunkItems(i, ids)) + 1 - j]]

\* what Promise.all answers: the results of the chunk in the chunk's order
ChunkResults(i, ids, result) ==
  [j \in 1..Cardinality(ChunkItems(i, ids)) |-> result[i + j]]

\* results.filter((j) => j !== null)
FilterJobs(results) ==
  LET kept == SelectSeq(results, LAMBDA r : r # <<>>)
  IN  [j \in 1..Len(kept) |-> kept[j][1]]

-----------------------------------------------------------------------------
(* Promise.all over a set of tasks with statuses st *)

(* The scanner's pure parts *)

\* Array.from({ length: scanConcurrency }, (_, i) => currentId - i)
chunkIds(cur) == [i \in 1..scanConcurrency |-> cur - (i - 1)]

RECURSIVE InsertAsc(_, _)
InsertAsc(r, sorted) ==
  IF sorted = <<>> THEN <<r>>
  ELSE IF r.id - Head(sorted).id >= 0 THEN <<Head(sorted)>> \o InsertAsc(r, Tail(sorted))
  ELSE <<r>> \o sorted

\* the comparator reversed: (a, b) => a.id - b.id
RECURSIVE SortAsc(_)
SortAsc(rs) ==
  IF rs = <<>> THEN <<>> ELSE InsertAsc(Head(rs), SortAsc(Tail(rs)))

RECURSIVE InsertDesc(_, _)
InsertDesc(r, sorted) ==
  IF sorted = <<>> THEN <<r>>
  ELSE IF Head(sorted).id - r.id >= 0 THEN <<Head(sorted)>> \o InsertDesc(r, Tail(sorted))
  ELSE <<r>> \o sorted

\* chunkResults.sort((a, b) => b.id - a.id)
RECURSIVE SortDesc(_)
SortDesc(rs) ==
  IF rs = <<>> THEN <<>> ELSE InsertDesc(Head(rs), SortDesc(Tail(rs)))

\* the comparison made strict: jobIds.length > limit
LimitReachedLate(lim, ids) == \E n \in lim : n # 0 /\ Len(ids) > n

\* limit && jobIds.length >= limit: undefined and 0 are falsy
LimitReached(lim, ids) == \E n \in lim : n # 0 /\ Len(ids) >= n

\* the loop without the reset of consecutiveInvalid on a valid identifier
RECURSIVE FoldResultsNoReset(_, _, _, _)
FoldResultsNoReset(rs, k, lim, acc) ==
  IF k > Len(rs) THEN acc
  ELSE IF LimitReached(lim, acc.jobIds) THEN [acc EXCEPT !.keepScanning = FALSE]
  ELSE LET res == rs[k]
           next == IF res.valid
                   THEN [acc EXCEPT !.jobIds = Append(@, toString(res.id)),
                                    !.folded = @ \cup {res.id}]
                   ELSE [acc EXCEPT !.consecutiveInvalid = @ + 1,
                                    !.folded = @ \cup {res.id}]
       IN  IF next.consecutiveInvalid >= maxConsecutiveInvalid
           THEN [next EXCEPT !.keepScanning = FALSE]
           ELSE FoldResultsNoReset(rs, k + 1, lim, next)

\* the loop over the sorted results, from result k on; acc carries jobIds,
\* consecutiveInvalid, keepScanning and the identifiers processed
RECURSIVE FoldResults(_, _, _, _)
FoldResults(rs, k, lim, acc) ==
  IF k > Len(rs) THEN acc
  ELSE IF LimitReached(lim, acc.jobIds) THEN [acc EXCEPT !.keepScanning = FALSE]
  ELSE LET res == rs[k]
           next == IF res.valid
                   THEN [acc EXCEPT !.jobIds = Append(@, toString(res.id)),
                                    !.consecutiveInvalid = 0,
                                    !.folded = @ \cup {res.id}]
                   ELSE [acc EXCEPT !.consecutiveInvalid = @ + 1,
                                    !.folded = @ \cup {res.id}]
       IN  IF next.consecutiveInvalid >= maxConsecutiveInvalid
           THEN [next EXCEPT !.keepScanning = FALSE]
           ELSE FoldResults(rs, k + 1, lim, next)

-----------------------------------------------------------------------------
(* Promise.all over a set of tasks with statuses st *)

\* fulfilled as soon as one task is: Promise.any
PromiseAnyFulfilled(tasks, st) ==
  \E t \in tasks : t \in DOMAIN st /\ st[t] = "resolved"

PromiseAllFulfilled(tasks, st) ==
  \A t \in tasks : t \in DOMAIN st /\ st[t] = "resolved"

PromiseAllRejected(tasks, st) ==
  \E t \in tasks : t \in DOMAIN st /\ st[t] = "rejected"

Settled(status) == status \in {"resolved", "rejected"}

-----------------------------------------------------------------------------
(* State *)

VARIABLES
  startId,            \* what findMostRecentJobId returned
  limit,              \* the limit argument of scrapeJobs
  oracle,             \* the identifiers whose page carries a record
  pc,                 \* position of the coordinating flow
  scanContextOpen,    \* the browser context scanJobIdsParallel creates
  currentId,          \* scanJobIdsParallel: highest identifier of the batch
  keepScanning,
  jobIds,
  consecutiveInvalid,
  probeSt,            \* identifier -> status of its probe, once started
  probeValid,         \* identifier -> what its isValidJobId answered
  probeFailed,        \* identifiers whose isValidJobId caught a failure
  folded,             \* the identifiers the result loop has processed
  faults,             \* number of failures injected so far
  chunkStart,         \* scrapeJobs: the loop index i
  itemSt,             \* position in jobIds -> status of its harvest item
  itemResult,         \* position in jobIds -> <<job>>, or <<>> for null
  softPages,          \* positions whose detail page was a soft-error page
  jobs,
  output              \* <<ScraperOutput>> once scrapeJobs has returned

scanVars == <<currentId, keepScanning, jobIds, consecutiveInvalid, probeSt,
              probeValid, probeFailed, folded, scanContextOpen>>
harvestVars == <<chunkStart, itemSt, itemResult, softPages, jobs, output>>

\* findMostRecentJobId
VARIABLES
  bootPc,             \* position in findMostRecentJobId
  attempt,            \* the loop variable
  bootUrl,            \* page.url() after the first job link was followed
  attemptLog,         \* per attempt made: {id} it yielded, or {} for none
  bootResult          \* {n} once findMostRecentJobId has returned n

bootVars == <<bootPc, attempt, bootUrl, attemptLog, bootResult>>

\* import-to-neon.ts
VARIABLES
  databaseUrl,        \* process.env.DATABASE_URL is set
  argv2,              \* process.argv[2]: {} when the command line has none
  importPc,           \* position in importJobs
  inputFile,          \* the path importJobs was called with
  importFile,         \* the file at that path: whether it exists, parses, its jobs
  tableExists,        \* the jobs table of the destination store
  indexes,            \* the indexes on it
  table,              \* its rows, in insertion order
  clock,              \* CURRENT_TIMESTAMP, counted in statements
  pool,               \* the pg Pool: clients checked out, ended or not
  jobIndex,           \* records of data.jobs the loop has processed
  inserted,
  updated,
  errors,
  schemaReady,        \* createTableIfNotExists has resolved in this run
  importLog,          \* per upsert issued: external_id present before, outcome
  importFailure,      \* {step} when importJobs rejected at that step
  exitCode            \* {n} once the process has exited with n

importVars == <<databaseUrl, argv2, importPc, inputFile, importFile, tableExists, indexes, table, clock, pool,
                jobIndex, inserted, updated, errors, schemaReady, importLog,
                importFailure, exitCode>>

\* index.ts
VARIABLES
  moduleSystem,       \* how the build resolves imports: "esm" or "cjs"
  limitArg,           \* the text given to --limit: {} when omitted
  cliPc,              \* position in index.ts and its scrape action
  artifact            \* <<content>> of options.output once written

cliVars == <<moduleSystem, limitArg, cliPc, artifact>>

\* scrapeJobDetails, applied to one fetched page
VARIABLES
  exPc,               \* "fetched" before the extraction, "extracted" after
  exPage,             \* what the locators and the regular expression see
  exResult            \* what scrapeJobDetails returns: <<>> or <<job>>

extractVars == <<exPc, exPage, exResult>>

\* the state of the other parts of the program, which scrapeJobs' scan and
\* harvest never touch
outsideScrape == <<bootVars, importVars, cliVars, extractVars>>

inputVars == <<startId, limit, oracle, outsideScrape>>
vars == <<inputVars, pc, faults, scanVars, harvestVars>>
scrapeVars == <<startId, limit, oracle, pc, faults, scanVars, harvestVars>>

NoTasks == [t \in {} |-> "resolved"]

\* no page is being extracted from
ExtractIdle ==
  /\ exPc = "idle"
  /\ exPage = <<>>
  /\ exResult = <<>>

\* index.ts is not running
CliIdle ==
  /\ moduleSystem = "cjs"
  /\ limitArg = {}
  /\ cliPc = "idle"
  /\ artifact = <<>>

\* import-to-neon.ts is not loaded
ImportIdle ==
  /\ databaseUrl = TRUE
  /\ argv2 = {}
  /\ inputFile = ""
  /\ importPc = "idle"
  /\ importFile = [exists |-> FALSE, json |-> FALSE, jobs |-> <<>>]
  /\ tableExists = FALSE
  /\ indexes = {}
  /\ table = <<>>
  /\ clock = 0
  /\ pool = [clients |-> 0, ended |-> FALSE]
  /\ jobIndex = 0
  /\ inserted = 0
  /\ updated = 0
  /\ errors = 0
  /\ schemaReady = FALSE
  /\ importLog = <<>>
  /\ importFailure = {}
  /\ exitCode = {}

\* findMostRecentJobId is not running
BootIdle ==
  /\ bootPc = "idle"
  /\ attempt = 0
  /\ bootUrl = <<>>
  /\ attemptLog = <<>>
  /\ bootResult = {}

Init ==
  /\ startId \in StartIds
  /\ limit \in Limits
  /\ oracle \in SUBSET {id \in Ids : id <= startId}
  /\ pc = "scan"
  /\ scanContextOpen = FALSE
  /\ currentId = startId
  /\ keepScanning = TRUE
  /\ jobIds = <<>>
  /\ consecutiveInvalid = 0
  /\ probeSt = NoTasks
  /\ probeValid = [t \in {} |-> FALSE]
  /\ probeFailed = {}
  /\ folded = {}
  /\ faults = 0
  /\ chunkStart = 0
  /\ itemSt = NoTasks
  /\ itemResult = [t \in {} |-> <<>>]
  /\ softPages = {}
  /\ jobs = <<>>
  /\ output = <<>>
  /\ BootIdle
  /\ ImportIdle
  /\ CliIdle
  /\ ExtractIdle

\* scrapeJobs' scan and harvest are not running
ScrapeIdle ==
  /\ startId = MaxId
  /\ limit = {}
  /\ oracle = {}
  /\ pc = "idle"
  /\ scanContextOpen = FALSE
  /\ currentId = MaxId
  /\ keepScanning = TRUE
  /\ jobIds = <<>>
  /\ consecutiveInvalid = 0
  /\ probeSt = NoTasks
  /\ probeValid = [t \in {} |-> FALSE]
  /\ probeFailed = {}
  /\ folded = {}
  /\ faults = 0
  /\ chunkStart = 0
  /\ itemSt = NoTasks
  /\ itemResult = [t \in {} |-> <<>>]
  /\ softPages = {}
  /\ jobs = <<>>
  /\ output = <<>>

-----------------------------------------------------------------------------
(* scanJobIdsParallel *)

Range(f) == {f[x] : x \in DOMAIN f}

\* the h1 a probe of id may read, and whether its page.goto succeeds: the
\* page of an identifier without a record may fail in any way
ScanHeadings(id) == IF id \in oracle THEN {{GoodHeading}} ELSE BadHeadings
ScanGoto(id) == IF id \in oracle THEN {TRUE} ELSE BOOLEAN

\* lines 118-127: the scanner's locals and its browser context
ScanBegin ==
  /\ pc = "scan"
  /\ jobIds' = <<>>
  /\ consecutiveInvalid' = 0
  /\ currentId' = startId
  /\ keepScanning' = TRUE
  /\ scanContextOpen' = TRUE
  /\ pc' = "scanLoop"
  /\ UNCHANGED <<inputVars, faults, probeSt, probeValid, probeFailed, folded,
                 harvestVars>>

\* lines 129-133: every probe of the batch is started; each awaits its page
ScanStartBatch ==
  /\ pc = "scanLoop"
  /\ keepScanning
  /\ LET batch == Range(chunkIds(currentId))
     IN  /\ probeSt' = [id \in DOMAIN probeSt \cup batch |->
                          IF id \in batch THEN "newPage" ELSE probeSt[id]]
         /\ probeValid' = [id \in DOMAIN probeValid \cup batch |->
                            IF id \in batch THEN FALSE ELSE probeValid[id]]
  /\ pc' = "scanAwait"
  /\ UNCHANGED <<inputVars, faults, currentId, keepScanning, jobIds,
                 consecutiveInvalid, probeFailed, folded, scanContextOpen,
                 harvestVars>>

\* A probe of the batch in flight takes a step.  A rejection is delivered to
\* the awaiting flow at once (the continuation is a microtask), before any
\* other probe's I/O completes.
ProbeRuns(id) ==
  /\ pc = "scanAwait"
  /\ id \in DOMAIN probeSt
  /\ ~PromiseAllRejected(Range(chunkIds(currentId)), probeSt)

ProbeUnchanged ==
  UNCHANGED <<inputVars, pc, currentId, keepScanning, jobIds,
              consecutiveInvalid, folded, scanContextOpen, harvestVars>>

\* line 133: context.newPage() answers
ProbeNewPage(id) ==
  /\ ProbeRuns(id)
  /\ probeSt[id] = "newPage"
  /\ probeSt' = [probeSt EXCEPT ![id] = "probing"]
  /\ UNCHANGED <<faults, probeValid, probeFailed>>
  /\ ProbeUnchanged

\* line 133: context.newPage() throws, outside the try: the probe rejects
ProbeNewPageFails(id) ==
  /\ ProbeRuns(id)
  /\ probeSt[id] = "newPage"
  /\ faults < MaxFaults
  /\ faults' = faults + 1
  /\ probeSt' = [probeSt EXCEPT ![id] = "rejected"]
  /\ UNCHANGED <<probeValid, probeFailed>>
  /\ ProbeUnchanged

\* the probe itself appends a valid identifier to jobIds when it completes
ProbeIsValidPushes(id) ==
  /\ ProbeRuns(id)
  /\ probeSt[id] = "probing"
  /\ \E gotoOk \in ScanGoto(id), h1 \in ScanHeadings(id) :
        /\ probeValid' = [probeValid EXCEPT ![id] = isValidJobId(gotoOk, h1)]
        /\ jobIds' = IF isValidJobId(gotoOk, h1)
                       THEN Append(jobIds, toString(id)) ELSE jobIds
  /\ probeSt' = [probeSt EXCEPT ![id] = "resolved"]
  /\ UNCHANGED <<faults, probeFailed>>
  /\ UNCHANGED <<inputVars, pc, currentId, keepScanning, consecutiveInvalid,
                 folded, scanContextOpen, harvestVars>>

\* lines 134-139 and 104-115: isValidJobId answers from the page it read,
\* page.close() answers and the probe resolves
ProbeIsValid(id) ==
  /\ ProbeRuns(id)
  /\ probeSt[id] = "probing"
  /\ \E gotoOk \in ScanGoto(id), h1 \in ScanHeadings(id) :
        probeValid' = [probeValid EXCEPT ![id] = isValidJobId(gotoOk, h1)]
  /\ probeSt' = [probeSt EXCEPT ![id] = "resolved"]
  /\ UNCHANGED <<faults, probeFailed>>
  /\ ProbeUnchanged

\* lines 107-114: the page of a record fails: page.goto throws (caught by
\* isValidJobId), or the read of the heading fails (caught by .catch); the
\* page is closed and the probe resolves
ProbeIsValidFails(id) ==
  /\ ProbeRuns(id)
  /\ probeSt[id] = "probing"
  /\ id \in oracle
  /\ faults < MaxFaults
  /\ faults' = faults + 1
  /\ \E gotoOk \in BOOLEAN :
        probeValid' = [probeValid EXCEPT ![id] = isValidJobId(gotoOk, {})]
  /\ probeSt' = [probeSt EXCEPT ![id] = "resolved"]
  /\ probeFailed' = probeFailed \cup {id}
  /\ ProbeUnchanged

\* line 138: isValidJobId has answered and page.close() throws inside
\* finally: the probe rejects
ProbeCloseFails(id) ==
  /\ ProbeRuns(id)
  /\ probeSt[id] = "probing"
  /\ faults < MaxFaults
  /\ faults' = faults + 1
  /\ probeSt' = [probeSt EXCEPT ![id] = "rejected"]
  /\ UNCHANGED <<probeValid, probeFailed>>
  /\ ProbeUnchanged

\* lines 131-166: Promise.all fulfils; the results are sorted and folded in
ScanFold ==
  /\ pc = "scanAwait"
  /\ PromiseAllFulfilled(Range(chunkIds(currentId)), probeSt)
  /\ LET ids == chunkIds(currentId)
         chunkResults == [i \in 1..scanConcurrency |->
                            [id |-> ids[i], valid |-> probeValid[ids[i]]]]
         acc == FoldResults(SortDesc(chunkResults), 1, limit,
                            [jobIds |-> jobIds,
                             consecutiveInvalid |-> consecutiveInvalid,
                             keepScanning |-> keepScanning,
                             folded |-> folded])
     IN  /\ jobIds' = acc.jobIds
         /\ consecutiveInvalid' = acc.consecutiveInvalid
         /\ keepScanning' = acc.keepScanning
         /\ folded' = acc.folded
         /\ currentId' = IF acc.keepScanning THEN currentId - scanConcurrency
                         ELSE currentId
         /\ pc' = IF acc.keepScanning THEN "scanLoop" ELSE "scanDone"
  /\ UNCHANGED <<inputVars, faults, probeSt, probeValid, probeFailed,
                 scanContextOpen, harvestVars>>

\* line 131 and lines 54-56: Promise.all rejects with the first rejection;
\* scanJobIdsParallel and scrapeJobs throw, browser.close() ends the rest
ScanReject ==
  /\ pc = "scanAwait"
  /\ PromiseAllRejected(Range(chunkIds(currentId)), probeSt)
  /\ pc' = "error"
  /\ scanContextOpen' = FALSE
  /\ UNCHANGED <<inputVars, faults, currentId, keepScanning, jobIds,
                 consecutiveInvalid, probeSt, probeValid, probeFailed, folded,
                 harvestVars>>

\* jobIds is returned with the scan context left open
ScanReturnKeepsContext ==
  /\ pc = "scanDone"
  /\ pc' = "harvest"
  /\ UNCHANGED <<inputVars, faults, currentId, keepScanning, jobIds,
                 consecutiveInvalid, probeSt, probeValid, probeFailed, folded,
                 scanContextOpen, harvestVars>>

\* lines 173-174: the scan context is closed and jobIds returned
ScanReturn ==
  /\ pc = "scanDone"
  /\ scanContextOpen' = FALSE
  /\ pc' = "harvest"
  /\ UNCHANGED <<inputVars, faults, currentId, keepScanning, jobIds,
                 consecutiveInvalid, probeSt, probeValid, probeFailed, folded,
                 harvestVars>>

ScanNext ==
  \/ ScanBegin
  \/ ScanStartBatch
  \/ \E id \in DOMAIN probeSt : ProbeNewPage(id)
  \/ \E id \in DOMAIN probeSt : ProbeNewPageFails(id)
  \/ \E id \in DOMAIN probeSt : ProbeIsValid(id)
  \/ \E id \in DOMAIN probeSt : ProbeIsValidFails(id)
  \/ \E id \in DOMAIN probeSt : ProbeCloseFails(id)
  \/ ScanFold
  \/ ScanReject
  \/ ScanReturn

-----------------------------------------------------------------------------
(* scrapeJobs: the harvest loop *)

Forbidden == <<"403", "-", "Forbidden">>
ServerError == <<"Server", "Error">>

OkPage ==
  [h1 |-> {GoodHeading},
   h5 |-> {<<"Rural", "Trust">>},
   location |-> {<<"Location:", Blank, "Lucknow">>},
   deadline |-> {<<"Apply by:", Blank, "08 Feb 2026">>},
   sectorMatch |-> {<< <<"Health">> >>},
   body |-> << <<"Home">>, GoodHeading, <<"Manages", "grants">>,
               <<"View", "Similar", "Jobs:">>, <<"Other", "jobs">> >>]

\* the detail pages a fetch may answer: a record's page, the four kinds of
\* soft-error page, and a page that names 403 outside the description
DetailPages ==
  { OkPage,
    [OkPage EXCEPT !.h1 = {ServerError \o <<"in", "Application">>}],
    [OkPage EXCEPT !.h1 = {Forbidden}],
    [OkPage EXCEPT !.h5 = {<<"Runtime">> \o ServerError}],
    [OkPage EXCEPT !.body = << GoodHeading, Forbidden \o <<"Access", "denied">> >>],
    [OkPage EXCEPT !.body = << Forbidden, GoodHeading, <<"Manages", "grants">>,
                               <<"View", "Similar", "Jobs:">>, Forbidden >>] }

\* a soft-error page, as the pipeline's contract names it
SoftErrorPage(page) ==
  LET title == InnerTextOr(page.h1, <<"Unknown", "Title">>)
      organization == InnerTextOr(page.h5, <<"Unknown", "Organization">>)
      description == ExtractDescription(page.body, title)
  IN  \/ Includes(title, Forbidden) \/ Includes(title, ServerError)
      \/ Includes(organization, ServerError)
      \/ Includes(description, Forbidden)

\* lines 29-32: the chunk is cut and every item started; each awaits its page
HarvestStartChunk ==
  /\ pc = "harvest"
  /\ chunkStart < Len(jobIds)
  /\ LET chunk == ChunkItems(chunkStart, jobIds)
     IN  /\ itemSt' = [k \in DOMAIN itemSt \cup chunk |->
                         IF k \in chunk THEN "newPage" ELSE itemSt[k]]
         /\ itemResult' = [k \in DOMAIN itemResult \cup chunk |->
                             IF k \in chunk THEN <<>> ELSE itemResult[k]]
  /\ pc' = "harvestAwait"
  /\ UNCHANGED <<inputVars, faults, scanVars, chunkStart, softPages, jobs,
                 output>>

\* An item of the chunk in flight takes a step; a rejection is delivered to
\* the awaiting flow before any other item's I/O completes.
ItemRuns(k) ==
  /\ pc = "harvestAwait"
  /\ k \in DOMAIN itemSt
  /\ ~PromiseAllRejected(ChunkItems(chunkStart, jobIds), itemSt)

ItemUnchanged ==
  UNCHANGED <<inputVars, pc, scanVars, chunkStart, jobs, output>>

\* line 32: context.newPage() answers
ItemNewPage(k) ==
  /\ ItemRuns(k)
  /\ itemSt[k] = "newPage"
  /\ itemSt' = [itemSt EXCEPT ![k] = "scraping"]
  /\ UNCHANGED <<faults, itemResult, softPages>>
  /\ ItemUnchanged

\* line 32: context.newPage() throws, outside the try: the item rejects
ItemNewPageFails(k) ==
  /\ ItemRuns(k)
  /\ itemSt[k] = "newPage"
  /\ faults < MaxFaults
  /\ faults' = faults + 1
  /\ itemSt' = [itemSt EXCEPT ![k] = "rejected"]
  /\ UNCHANGED <<itemResult, softPages>>
  /\ ItemUnchanged

\* lines 33-42: scrapeJobDetails answers from the page it fetched,
\* localPage.close() answers and the item resolves
ItemScrape(k) ==
  /\ ItemRuns(k)
  /\ itemSt[k] = "scraping"
  /\ \E page \in DetailPages :
        /\ itemResult' = [itemResult EXCEPT ![k] = scrapeJobDetails(page, jobIds[k])]
        /\ softPages' = IF SoftErrorPage(page) THEN softPages \cup {k} ELSE softPages
  /\ itemSt' = [itemSt EXCEPT ![k] = "resolved"]
  /\ UNCHANGED faults
  /\ ItemUnchanged

\* lines 36-42: scrapeJobDetails throws (page.goto fails); the catch answers
\* null, the page is closed and the item resolves
ItemScrapeFails(k) ==
  /\ ItemRuns(k)
  /\ itemSt[k] = "scraping"
  /\ faults < MaxFaults
  /\ faults' = faults + 1
  /\ itemResult' = [itemResult EXCEPT ![k] = <<>>]
  /\ itemSt' = [itemSt EXCEPT ![k] = "resolved"]
  /\ UNCHANGED softPages
  /\ ItemUnchanged

\* line 41: the try block is over and localPage.close() throws inside
\* finally: the item rejects
ItemCloseFails(k) ==
  /\ ItemRuns(k)
  /\ itemSt[k] = "scraping"
  /\ faults < MaxFaults
  /\ faults' = faults + 1
  /\ itemSt' = [itemSt EXCEPT ![k] = "rejected"]
  /\ UNCHANGED <<itemResult, softPages>>
  /\ ItemUnchanged

\* lines 45-47: Promise.all fulfils; the non-null results are appended
HarvestPush ==
  /\ pc = "harvestAwait"
  /\ PromiseAllFulfilled(ChunkItems(chunkStart, jobIds), itemSt)
  /\ jobs' = jobs \o FilterJobs(ChunkResults(chunkStart, jobIds, itemResult))
  /\ chunkStart' = chunkStart + CONCURRENCY_LIMIT
  /\ pc' = "harvest"
  /\ UNCHANGED <<inputVars, faults, scanVars, itemSt, itemResult, softPages,
                 output>>

\* line 45 and lines 54-56: Promise.all rejects; scrapeJobs throws
HarvestReject ==
  /\ pc = "harvestAwait"
  /\ PromiseAllRejected(ChunkItems(chunkStart, jobIds), itemSt)
  /\ pc' = "error"
  /\ UNCHANGED <<inputVars, faults, scanVars, harvestVars>>

\* lines 49-56: the loop is over and the output returned (scrapedAt, the
\* wall-clock time, is not modelled)
HarvestReturn ==
  /\ pc = "harvest"
  /\ chunkStart >= Len(jobIds)
  /\ output' = << [totalJobs |-> Len(jobs), jobs |-> jobs] >>
  /\ pc' = "done"
  /\ UNCHANGED <<inputVars, faults, scanVars, chunkStart, itemSt, itemResult,
                 softPages, jobs>>

HarvestNext ==
  \/ HarvestStartChunk
  \/ \E k \in DOMAIN itemSt : ItemNewPage(k)
  \/ \E k \in DOMAIN itemSt : ItemNewPageFails(k)
  \/ \E k \in DOMAIN itemSt : ItemScrape(k)
  \/ \E k \in DOMAIN itemSt : ItemScrapeFails(k)
  \/ \E k \in DOMAIN itemSt : ItemCloseFails(k)
  \/ HarvestPush
  \/ HarvestReject
  \/ HarvestReturn

Next == ScanNext \/ HarvestNext

Spec == Init /\ [][Next]_vars

\* scanJobIdsParallel alone, called with a startId near 0
MaxLowId == 3

InitScan ==
  /\ startId \in 0..MaxLowId
  /\ limit \in Limits
  /\ oracle \in SUBSET (0..startId)
  /\ pc = "scan"
  /\ scanContextOpen = FALSE
  /\ currentId = startId
  /\ keepScanning = TRUE
  /\ jobIds = <<>>
  /\ consecutiveInvalid = 0
  /\ probeSt = NoTasks
  /\ probeValid = [t \in {} |-> FALSE]
  /\ probeFailed = {}
  /\ folded = {}
  /\ faults = 0
  /\ chunkStart = 0
  /\ itemSt = NoTasks
  /\ itemResult = [t \in {} |-> <<>>]
  /\ softPages = {}
  /\ jobs = <<>>
  /\ output = <<>>
  /\ BootIdle
  /\ ImportIdle
  /\ CliIdle
  /\ ExtractIdle

SpecScan == InitScan /\ [][ScanNext]_vars

\* the steps of a scan in which every probe resolves: newPage() and
\* page.close() answer, and isValidJobId answers true or false
ScanResolves ==
  \/ ScanBegin
  \/ ScanStartBatch
  \/ \E id \in DOMAIN probeSt : ProbeNewPage(id)
  \/ \E id \in DOMAIN probeSt : ProbeIsValid(id)
  \/ \E id \in DOMAIN probeSt : ProbeIsValidFails(id)
  \/ ScanFold
  \/ ScanReturn

\* a probe is bounded by its navigation and innerText timeouts, and the
\* coordinating flow runs on once its awaits settle
SpecScanFair == InitScan /\ [][ScanResolves]_vars /\ WF_vars(ScanResolves)

\* the browser scrapeJobs launches, and closes in its finally block when it
\* returns or throws: closing it closes every page still open in it
BrowserOpen == pc \notin {"done", "error"}

\* a probe, or a harvest item, holds its page from newPage() to its close()
ProbeHoldsPage(id) == id \in DOMAIN probeSt /\ probeSt[id] = "probing"
ItemHoldsPage(k) == k \in DOMAIN itemSt /\ itemSt[k] = "scraping"

-----------------------------------------------------------------------------
(* Vocabulary of the properties *)

DigitValue(c) == CHOOSE d \in 0..9 : DigitChars[d + 1] = c

\* the number a string of decimal digits writes
RECURSIVE Number(_)
Number(str) ==
  IF Len(str) = 1 THEN DigitValue(str[1])
  ELSE 10 * Number(SubSeq(str, 1, Len(str) - 1)) + DigitValue(str[Len(str)])

StrictlyDescending(ids) ==
  \A a, b \in 1..Len(ids) : a < b => Number(ids[a]) > Number(ids[b])

\* the identifiers the scanner reports
Reported == {Number(jobIds[k]) : k \in 1..Len(jobIds)}

\* the validity oracle as the probes answer it: a record's page whose probe
\* failed counts as invalid
Valid == oracle \ probeFailed

\* the n highest identifiers of a set, highest first
RECURSIVE Highest(_, _)
Highest(set, n) ==
  IF n = 0 \/ set = {} THEN <<>>
  ELSE LET top == CHOOSE x \in set : \A y \in set : y <= x
       IN  <<top>> \o Highest(set \ {top}, n - 1)

\* maxConsecutiveInvalid consecutive invalid identifiers, from top downward
InvalidRun(top) ==
  \A id \in (top - maxConsecutiveInvalid + 1)..top : id \notin Valid

\* some run of maxConsecutiveInvalid invalid identifiers lies between id
\* (excluded) and startId
GapAbove(id) ==
  \E top \in (id + maxConsecutiveInvalid)..startId : InvalidRun(top)

Unsettled(st) == {t \in DOMAIN st : ~Settled(st[t])}
ProbeBatch(id) == (startId - id) \div scanConcurrency
ItemBatch(k) == (k - 1) \div CONCURRENCY_LIMIT

ExternalIds(js) == [k \in 1..Len(js) |-> js[k].externalId]
Position(jobId) == CHOOSE k \in 1..Len(jobIds) : jobIds[k] = jobId

ScanFailed == pc = "error" /\ \E id \in DOMAIN probeSt : probeSt[id] = "rejected"
HarvestFailed == pc = "error" /\ \E k \in DOMAIN itemSt : itemSt[k] = "rejected"

-----------------------------------------------------------------------------
(* findMostRecentJobId *)

MaxUrlLen == 3
MaxAttempts == 3
FallbackJobId == 285461

\* the pieces an address is made of here
UrlChars == {"Job_Id=", "0", "7", "&"}

\* the addresses the page can be at after the first job link was followed
Urls == UNION {[1..n -> UrlChars] : n \in 0..MaxUrlLen}

IsDigit(c) == \E d \in 1..10 : DigitChars[d] = c

\* the longest run of digits of url that starts at position i
RECURSIVE DigitRun(_, _)
DigitRun(url, i) ==
  IF i <= Len(url) /\ IsDigit(url[i])
    THEN <<url[i]>> \o DigitRun(url, i + 1)
    ELSE <<>>

\* url.match(/Job_Id=(\d+)/): {} for null, else {match[1]} of the leftmost
\* match
MatchJobId(url) ==
  LET hits == {i \in 1..Len(url) : url[i] = "Job_Id=" /\ DigitRun(url, i + 1) # <<>>}
  IN  IF hits = {} THEN {}
      ELSE {DigitRun(url, (CHOOSE i \in hits : \A j \in hits : i <= j) + 1)}

parseInt(digits) == Number(digits)

outsideBoot == <<scrapeVars, importVars, cliVars, extractVars>>

InitBootstrap ==
  /\ ScrapeIdle
  /\ ImportIdle
  /\ CliIdle
  /\ ExtractIdle
  /\ bootPc = "goto"
  /\ attempt = 0
  /\ bootUrl = <<>>
  /\ attemptLog = <<>>
  /\ bootResult = {}

\* an awaited step rejects outside the try block: findMostRecentJobId raises
BootRaise ==
  /\ bootPc' = "raised"
  /\ UNCHANGED <<attempt, bootUrl, attemptLog, bootResult, outsideBoot>>

\* an awaited step rejects inside the try block: the catch logs, and the
\* loop goes on with the next attempt
BootCatch ==
  /\ bootPc' = "loop"
  /\ attempt' = attempt + 1
  /\ attemptLog' = Append(attemptLog, {})
  /\ UNCHANGED <<bootUrl, bootResult, outsideBoot>>

BootStep(from, to) ==
  /\ bootPc = from
  /\ bootPc' = to
  /\ UNCHANGED <<attempt, bootUrl, attemptLog, bootResult, outsideBoot>>

\* page.goto(SEARCH_PAGE_URL)
BootGoto == BootStep("goto", "search")
BootGotoFails == bootPc = "goto" /\ BootRaise

\* click on the Search button
BootSearch == BootStep("search", "settle")
BootSearchFails == bootPc = "search" /\ BootRaise

\* waitForLoadState and waitForTimeout
BootSettle == BootStep("settle", "loop")
BootSettleFails == bootPc = "settle" /\ BootRaise

\* the loop test
BootLoop ==
  /\ bootPc = "loop"
  /\ IF attempt < MaxAttempts
       THEN /\ bootPc' = "count"
            /\ UNCHANGED bootResult
       ELSE /\ bootPc' = "returned"
            /\ bootResult' = {FallbackJobId}
  /\ UNCHANGED <<attempt, bootUrl, attemptLog, outsideBoot>>

\* firstJobLink.count() is 0: wait, and continue with the next attempt
BootNoLinks ==
  /\ bootPc = "count"
  /\ bootPc' = "loop"
  /\ attempt' = attempt + 1
  /\ attemptLog' = Append(attemptLog, {})
  /\ UNCHANGED <<bootUrl, bootResult, outsideBoot>>

BootHasLinks == BootStep("count", "click")
BootCountFails == bootPc = "count" /\ BootCatch

\* firstJobLink.click()
BootClick == BootStep("click", "load")
BootClickFails == bootPc = "click" /\ BootCatch

\* waitForLoadState, then page.url()
BootLoad ==
  /\ bootPc = "load"
  /\ bootPc' = "url"
  /\ bootUrl' \in Urls
  /\ UNCHANGED <<attempt, attemptLog, bootResult, outsideBoot>>

BootLoadFails == bootPc = "load" /\ BootCatch

\* the address carries a Job_Id: return it
BootMatch ==
  /\ bootPc = "url"
  /\ MatchJobId(bootUrl) # {}
  /\ bootPc' = "returned"
  /\ bootResult' = {parseInt(digits) : digits \in MatchJobId(bootUrl)}
  /\ attemptLog' = Append(attemptLog, bootResult')
  /\ UNCHANGED <<attempt, bootUrl, outsideBoot>>

BootNoMatch ==
  /\ MatchJobId(bootUrl) = {}
  /\ BootStep("url", "goBack")

\* page.goBack() and waitForLoadState
BootGoBack ==
  /\ bootPc = "goBack"
  /\ bootPc' = "loop"
  /\ attempt' = attempt + 1
  /\ attemptLog' = Append(attemptLog, {})
  /\ UNCHANGED <<bootUrl, bootResult, outsideBoot>>

BootGoBackFails == bootPc = "goBack" /\ BootCatch

NextBootstrap ==
  \/ BootGoto
  \/ BootGotoFails
  \/ BootSearch
  \/ BootSearchFails
  \/ BootSettle
  \/ BootSettleFails
  \/ BootLoop
  \/ BootNoLinks
  \/ BootHasLinks
  \/ BootCountFails
  \/ BootClick
  \/ BootClickFails
  \/ BootLoad
  \/ BootLoadFails
  \/ BootMatch
  \/ BootNoMatch
  \/ BootGoBack
  \/ BootGoBackFails

SpecBootstrap == InitBootstrap /\ [][NextBootstrap]_vars

-----------------------------------------------------------------------------
(* import-to-neon.ts, run as a script *)

MaxJobs == 3
TitleWidth == 2

ImportIds == {toString(MaxId), toString(MaxId - 1)}
Versions == {"old", "new"}

\* a record of the artifact, in one of two versions of its fields
JobOf(id, v) ==
  [externalId |-> id,
   title |-> <<"title", v>>,
   organization |-> <<"organization", v>>,
   location |-> <<"location", v>>,
   deadline |-> <<"deadline", v>>,
   sectors |-> <<<<"sector", v>>>>,
   description |-> <<"description", v>>,
   originalUrl |-> <<"url", v>>]

\* a record whose title is wider than the title column
OverlongJob(id) == [JobOf(id, "new") EXCEPT !.title = <<"title", "too", "long">>]

ImportJobs ==
  {JobOf(id, v) : id \in ImportIds, v \in Versions} \cup {OverlongJob(toString(MaxId))}

JobSeqs == UNION {[1..n -> ImportJobs] : n \in 0..MaxJobs}

\* the row the statement's VALUES list proposes
Row(job, created, now) ==
  [external_id |-> job.externalId,
   title |-> job.title,
   organization |-> job.organization,
   location |-> job.location,
   deadline |-> job.deadline,
   sectors |-> job.sectors,
   description |-> job.description,
   original_url |-> job.originalUrl,
   created_at |-> created,
   updated_at |-> now]

\* title VARCHAR(500): a wider value is refused
Rejects(job) == Len(job.title) > TitleWidth

\* INSERT without the ON CONFLICT clause
UpsertInsertOnly(rows, job, now) ==
  [table |-> Append(rows, Row(job, now, now)), inserted |-> TRUE]

\* INSERT ... ON CONFLICT (external_id) DO UPDATE SET ... RETURNING (xmax = 0)
Upsert(rows, job, now) ==
  LET hit == {i \in 1..Len(rows) : rows[i].external_id = job.externalId}
  IN  IF hit = {}
        THEN [table |-> Append(rows, Row(job, now, now)), inserted |-> TRUE]
        ELSE [table |-> [i \in 1..Len(rows) |->
                           IF i \in hit THEN Row(job, rows[i].created_at, now)
                           ELSE rows[i]],
              inserted |-> FALSE]

\* the destination store as earlier runs may have left it
PriorStores ==
  {[tableExists |-> FALSE, rows |-> <<>>],
   [tableExists |-> TRUE, rows |-> <<>>],
   [tableExists |-> TRUE, rows |-> <<Row(JobOf(toString(MaxId), "old"), 0, 0)>>]}

AllIndexes == {"idx_jobs_external_id", "idx_jobs_deadline"}

InputFiles ==
  {[exists |-> FALSE, json |-> FALSE, jobs |-> <<>>],
   [exists |-> TRUE, json |-> FALSE, jobs |-> <<>>]}
  \cup {[exists |-> TRUE, json |-> TRUE, jobs |-> js] : js \in JobSeqs}

DefaultInputFile == "output/jobs.json"

outsideImport == <<scrapeVars, bootVars, cliVars, extractVars>>

InitImport ==
  /\ ScrapeIdle
  /\ BootIdle
  /\ CliIdle
  /\ ExtractIdle
  /\ databaseUrl \in BOOLEAN
  /\ argv2 \in {{}, {"./data/my-jobs.json"}}
  /\ inputFile = ""
  /\ importPc = "load"
  /\ importFile \in InputFiles
  /\ \E store \in PriorStores :
        /\ tableExists = store.tableExists
        /\ indexes = IF store.tableExists THEN AllIndexes ELSE {}
        /\ table = store.rows
  /\ clock = 1
  /\ pool = [clients |-> 0, ended |-> FALSE]
  /\ jobIndex = 0
  /\ inserted = 0
  /\ updated = 0
  /\ errors = 0
  /\ schemaReady = FALSE
  /\ importLog = <<>>
  /\ importFailure = {}
  /\ exitCode = {}

fileVars == <<argv2, inputFile, importFile>>
storeVars == <<tableExists, indexes, table, clock>>
loopVars == <<jobIndex, inserted, updated, errors, importLog>>

\* importJobs rejects at the given step
ImportReject(step) ==
  /\ importPc' = "failed"
  /\ importFailure' = {step}

\* module top level: the connection string is there, the pool is made and
\* importJobs is called
ImportLoad ==
  /\ exitCode = {}
  /\ importPc = "load"
  /\ databaseUrl
  /\ inputFile' = IF argv2 = {} THEN DefaultInputFile ELSE CHOOSE path \in argv2 : TRUE
  /\ importPc' = "read"
  /\ UNCHANGED <<databaseUrl, argv2, importFile, storeVars, pool, loopVars, schemaReady,
                 importFailure, exitCode, outsideImport>>

ImportNoDatabaseUrl ==
  /\ exitCode = {}
  /\ importPc = "load"
  /\ ~databaseUrl
  /\ importPc' = "exited"
  /\ exitCode' = {1}
  /\ UNCHANGED <<databaseUrl, fileVars, storeVars, pool, loopVars, schemaReady,
                 importFailure, outsideImport>>

\* readFile and JSON.parse
ImportRead ==
  /\ exitCode = {}
  /\ importPc = "read"
  /\ importFile.exists /\ importFile.json
  /\ importPc' = "schemaConnect"
  /\ UNCHANGED <<databaseUrl, fileVars, storeVars, pool, loopVars, schemaReady,
                 importFailure, exitCode, outsideImport>>

ImportReadFails ==
  /\ exitCode = {}
  /\ importPc = "read"
  /\ ~(importFile.exists /\ importFile.json)
  /\ ImportReject(IF importFile.exists THEN "parse" ELSE "read")
  /\ UNCHANGED <<databaseUrl, fileVars, storeVars, pool, loopVars, schemaReady,
                 exitCode, outsideImport>>

\* createTableIfNotExists: pool.connect()
SchemaConnect ==
  /\ exitCode = {}
  /\ importPc = "schemaConnect"
  /\ importPc' = "createTable"
  /\ pool' = [pool EXCEPT !.clients = @ + 1]
  /\ UNCHANGED <<databaseUrl, fileVars, storeVars, loopVars, schemaReady,
                 importFailure, exitCode, outsideImport>>

SchemaConnectFails ==
  /\ exitCode = {}
  /\ importPc = "schemaConnect"
  /\ ImportReject("schema")
  /\ UNCHANGED <<databaseUrl, fileVars, storeVars, pool, loopVars, schemaReady,
                 exitCode, outsideImport>>

\* CREATE TABLE IF NOT EXISTS jobs
SchemaCreateTable ==
  /\ exitCode = {}
  /\ importPc = "createTable"
  /\ importPc' = "createIndex1"
  /\ tableExists' = TRUE
  /\ UNCHANGED <<databaseUrl, fileVars, indexes, table, clock, pool, loopVars,
                 schemaReady, importFailure, exitCode, outsideImport>>

\* CREATE INDEX IF NOT EXISTS idx_jobs_external_id
SchemaCreateIndex1 ==
  /\ exitCode = {}
  /\ importPc = "createIndex1"
  /\ importPc' = "createIndex2"
  /\ indexes' = indexes \cup {"idx_jobs_external_id"}
  /\ UNCHANGED <<databaseUrl, fileVars, tableExists, table, clock, pool,
                 loopVars, schemaReady, importFailure, exitCode, outsideImport>>

\* CREATE INDEX IF NOT EXISTS idx_jobs_deadline, then the finally block
\* releases the client and createTableIfNotExists resolves
SchemaCreateIndex2 ==
  /\ exitCode = {}
  /\ importPc = "createIndex2"
  /\ importPc' = "connect"
  /\ indexes' = indexes \cup {"idx_jobs_deadline"}
  /\ pool' = [pool EXCEPT !.clients = @ - 1]
  /\ schemaReady' = TRUE
  /\ UNCHANGED <<databaseUrl, fileVars, tableExists, table, clock, loopVars,
                 importFailure, exitCode, outsideImport>>

\* one of the three statements is refused, the finally block releases the
\* client, and importJobs goes on regardless
SchemaQueryFailsSwallowed ==
  /\ exitCode = {}
  /\ importPc \in {"createTable", "createIndex1", "createIndex2"}
  /\ importPc' = "connect"
  /\ pool' = [pool EXCEPT !.clients = @ - 1]
  /\ UNCHANGED <<databaseUrl, fileVars, storeVars, loopVars, schemaReady,
                 importFailure, exitCode, outsideImport>>

\* one of the three statements is refused: the finally block releases the
\* client, createTableIfNotExists rejects, and so does importJobs
SchemaQueryFails ==
  /\ exitCode = {}
  /\ importPc \in {"createTable", "createIndex1", "createIndex2"}
  /\ ImportReject("schema")
  /\ pool' = [pool EXCEPT !.clients = @ - 1]
  /\ UNCHANGED <<databaseUrl, fileVars, storeVars, loopVars, schemaReady,
                 exitCode, outsideImport>>

\* importJobs: pool.connect()
ImportConnect ==
  /\ exitCode = {}
  /\ importPc = "connect"
  /\ importPc' = "loop"
  /\ pool' = [pool EXCEPT !.clients = @ + 1]
  /\ UNCHANGED <<databaseUrl, fileVars, storeVars, loopVars, schemaReady,
                 importFailure, exitCode, outsideImport>>

ImportConnectFails ==
  /\ exitCode = {}
  /\ importPc = "connect"
  /\ ImportReject("connect")
  /\ UNCHANGED <<databaseUrl, fileVars, storeVars, pool, loopVars, schemaReady,
                 exitCode, outsideImport>>

\* whether a row of the table carries the record's external_id
Present(rows, job) == \E i \in 1..Len(rows) : rows[i].external_id = job.externalId

\* the loop body for the next record, the statement being carried out
ImportUpsert ==
  /\ exitCode = {}
  /\ importPc = "loop"
  /\ jobIndex < Len(importFile.jobs)
  /\ LET job == importFile.jobs[jobIndex + 1]
         result == Upsert(table, job, clock)
     IN  /\ tableExists
         /\ ~Rejects(job)
         /\ table' = result.table
         /\ IF result.inserted
              THEN inserted' = inserted + 1 /\ UNCHANGED updated
              ELSE updated' = updated + 1 /\ UNCHANGED inserted
         /\ importLog' = Append(importLog,
              [present |-> Present(table, job),
               outcome |-> IF result.inserted THEN "insert" ELSE "update"])
  /\ jobIndex' = jobIndex + 1
  /\ clock' = clock + 1
  /\ UNCHANGED <<databaseUrl, importPc, fileVars, tableExists, indexes, pool,
                 errors, schemaReady, importFailure, exitCode, outsideImport>>

\* the statement is refused and the table unchanged, but the failure is
\* not counted
ImportUpsertFailsUncounted ==
  /\ exitCode = {}
  /\ importPc = "loop"
  /\ jobIndex < Len(importFile.jobs)
  /\ importLog' = Append(importLog,
       [present |-> Present(table, importFile.jobs[jobIndex + 1]),
        outcome |-> "error"])
  /\ jobIndex' = jobIndex + 1
  /\ clock' = clock + 1
  /\ UNCHANGED <<databaseUrl, importPc, fileVars, tableExists, indexes, table,
                 pool, inserted, updated, errors, schemaReady, importFailure,
                 exitCode, outsideImport>>

\* the loop body for the next record, the statement being refused (a value
\* the table's columns do not take, a missing table, a lost connection):
\* the table is unchanged, and the catch counts an error
ImportUpsertFails ==
  /\ exitCode = {}
  /\ importPc = "loop"
  /\ jobIndex < Len(importFile.jobs)
  /\ importLog' = Append(importLog,
       [present |-> Present(table, importFile.jobs[jobIndex + 1]),
        outcome |-> "error"])
  /\ errors' = errors + 1
  /\ jobIndex' = jobIndex + 1
  /\ clock' = clock + 1
  /\ UNCHANGED <<databaseUrl, importPc, fileVars, tableExists, indexes, table,
                 pool, inserted, updated, schemaReady, importFailure, exitCode,
                 outsideImport>>

\* the loop has ended: the summary, client.release(), pool.end(), and the
\* script has nothing left to do
ImportFinish ==
  /\ exitCode = {}
  /\ importPc = "loop"
  /\ jobIndex = Len(importFile.jobs)
  /\ importPc' = "exited"
  /\ pool' = [clients |-> pool.clients - 1, ended |-> TRUE]
  /\ exitCode' = {0}
  /\ UNCHANGED <<databaseUrl, fileVars, storeVars, loopVars, schemaReady,
                 importFailure, outsideImport>>

\* pool.end() rejects
ImportEndFails ==
  /\ exitCode = {}
  /\ importPc = "loop"
  /\ jobIndex = Len(importFile.jobs)
  /\ ImportReject("end")
  /\ pool' = [pool EXCEPT !.clients = @ - 1]
  /\ UNCHANGED <<databaseUrl, fileVars, storeVars, loopVars, schemaReady,
                 exitCode, outsideImport>>

\* module top level: the catch of importJobs' promise
ImportCatch ==
  /\ exitCode = {}
  /\ importPc = "failed"
  /\ importPc' = "exited"
  /\ exitCode' = {1}
  /\ UNCHANGED <<databaseUrl, fileVars, storeVars, pool, loopVars, schemaReady,
                 importFailure, outsideImport>>

NextImport ==
  \/ ImportLoad
  \/ ImportNoDatabaseUrl
  \/ ImportRead
  \/ ImportReadFails
  \/ SchemaConnect
  \/ SchemaConnectFails
  \/ SchemaCreateTable
  \/ SchemaCreateIndex1
  \/ SchemaCreateIndex2
  \/ SchemaQueryFails
  \/ ImportConnect
  \/ ImportConnectFails
  \/ ImportUpsert
  \/ ImportUpsertFails
  \/ ImportFinish
  \/ ImportEndFails
  \/ ImportCatch

SpecImport == InitImport /\ [][NextImport]_vars

-----------------------------------------------------------------------------
(* index.ts: a run of the scrape command *)

DefaultLimit == 500
OutputPath == "output/jobs.json"

\* the texts --limit is given
LimitArgs == {{}} \cup {{toString(n)} : n \in 0..MaxLimit}

\* options.limit: commander applies the option's parser to a given text and
\* takes the option's default value when the option is omitted
OptionsLimit(arg) ==
  IF arg = {} THEN {DefaultLimit} ELSE {parseInt(text) : text \in arg}

\* the file named by process.argv[2] in the working directory, if any
CliFiles ==
  {file \in InputFiles : Len(file.jobs) <= 1}

\* the identifiers scanJobIdsParallel returns: the n highest
Discovered(n) == [k \in 1..n |-> toString(MaxId - k + 1)]

InitCli ==
  /\ ScrapeIdle
  /\ BootIdle
  /\ ExtractIdle
  /\ databaseUrl \in BOOLEAN
  /\ argv2 = {"scrape"}
  /\ inputFile = ""
  /\ importPc = "idle"
  /\ importFile \in CliFiles
  /\ \E store \in PriorStores :
        /\ tableExists = store.tableExists
        /\ indexes = IF store.tableExists THEN AllIndexes ELSE {}
        /\ table = store.rows
  /\ clock = 1
  /\ pool = [clients |-> 0, ended |-> FALSE]
  /\ jobIndex = 0
  /\ inserted = 0
  /\ updated = 0
  /\ errors = 0
  /\ schemaReady = FALSE
  /\ importLog = <<>>
  /\ importFailure = {}
  /\ exitCode = {}
  /\ moduleSystem \in {"esm", "cjs"}
  /\ limitArg \in LimitArgs
  /\ cliPc = "link"
  /\ artifact = <<>>

scrapeRest == <<oracle, faults, scanContextOpen, currentId, keepScanning,
                consecutiveInvalid, probeSt, probeValid, probeFailed, folded,
                chunkStart, itemSt, itemResult, softPages>>
importRest == <<databaseUrl, argv2, inputFile, importFile, storeVars, pool,
                loopVars, schemaReady, importFailure>>

\* process.exit(1)
CliExit ==
  /\ cliPc' = "exited"
  /\ exitCode' = {1}

\* the imports, linked as ES modules: import-to-neon.ts has no export named
\* importJobs, so the program is refused before any module body runs
CliLinkFails ==
  /\ exitCode = {}
  /\ cliPc = "link"
  /\ moduleSystem = "esm"
  /\ CliExit
  /\ UNCHANGED <<moduleSystem, limitArg, artifact, importPc, importRest,
                 scrapeVars, bootVars, extractVars>>

\* the imports, as CommonJS requires: the body of import-to-neon.ts runs
CliLoadModules ==
  /\ exitCode = {}
  /\ cliPc = "link"
  /\ moduleSystem = "cjs"
  /\ cliPc' = "loadImport"
  /\ importPc' = "load"
  /\ UNCHANGED <<moduleSystem, limitArg, artifact, importRest, exitCode,
                 scrapeVars, bootVars, extractVars>>

\* program.parse(): the scrape action runs up to its call of scrapeJobs
CliParse ==
  /\ exitCode = {}
  /\ cliPc = "loadImport"
  /\ importPc \notin {"idle", "load"}
  /\ cliPc' = "scraping"
  /\ limit' = OptionsLimit(limitArg)
  /\ pc' = "bootstrap"
  /\ UNCHANGED <<moduleSystem, limitArg, artifact, importVars, bootVars,
                 extractVars, startId, jobIds, jobs, output, scrapeRest>>

\* scrapeJobs: the browser is launched and findMostRecentJobId returns
ScrapeBootstrap ==
  /\ exitCode = {}
  /\ pc = "bootstrap"
  /\ pc' = "scanning"
  /\ startId' = MaxId
  /\ UNCHANGED <<cliVars, importVars, bootVars, extractVars, limit, jobIds,
                 jobs, output, scrapeRest>>

\* scrapeJobs: scanJobIdsParallel returns
ScrapeScan ==
  /\ exitCode = {}
  /\ pc = "scanning"
  /\ pc' = "harvesting"
  /\ \E n \in 0..IdCount :
        /\ ~LimitReached(limit, Discovered(n - 1))
        /\ jobIds' = Discovered(n)
  /\ UNCHANGED <<cliVars, importVars, bootVars, extractVars, startId, limit,
                 jobs, output, scrapeRest>>

\* scrapeJobs: the harvest loop ends and the output is returned
ScrapeHarvest ==
  /\ exitCode = {}
  /\ pc = "harvesting"
  /\ pc' = "done"
  /\ jobs' = [k \in 1..Len(jobIds) |-> JobOf(jobIds[k], "new")]
  /\ output' = <<[totalJobs |-> Len(jobs'), jobs |-> jobs']>>
  /\ UNCHANGED <<cliVars, importVars, bootVars, extractVars, startId, limit,
                 jobIds, scrapeRest>>

\* scrapeJobs throws: the launch, findMostRecentJobId, the scan or the
\* harvest rejected
ScrapeThrows ==
  /\ exitCode = {}
  /\ pc \in {"bootstrap", "scanning", "harvesting"}
  /\ pc' = "error"
  /\ UNCHANGED <<cliVars, importVars, bootVars, extractVars, startId, limit,
                 jobIds, jobs, output, scrapeRest>>

\* mkdir and writeFile of the result
CliWrite ==
  /\ exitCode = {}
  /\ cliPc = "scraping"
  /\ pc = "done"
  /\ cliPc' = "import"
  /\ artifact' = output
  /\ UNCHANGED <<moduleSystem, limitArg, importVars, scrapeVars, bootVars,
                 extractVars>>

\* the catch of the action: scrapeJobs threw, or mkdir or writeFile rejected
CliCatch ==
  /\ exitCode = {}
  /\ cliPc = "scraping"
  /\ pc \in {"done", "error"}
  /\ CliExit
  /\ UNCHANGED <<moduleSystem, limitArg, artifact, importPc, importRest,
                 scrapeVars, bootVars, extractVars>>

\* the call importJobs(options.output, false): the required module has no
\* importJobs, the call throws a TypeError and the catch exits
CliImport ==
  /\ exitCode = {}
  /\ cliPc = "import"
  /\ CliExit
  /\ UNCHANGED <<moduleSystem, limitArg, artifact, importPc, importRest,
                 scrapeVars, bootVars, extractVars>>

NextCli ==
  \/ CliLinkFails
  \/ CliLoadModules
  \/ CliParse
  \/ ScrapeBootstrap
  \/ ScrapeScan
  \/ ScrapeHarvest
  \/ ScrapeThrows
  \/ CliWrite
  \/ CliCatch
  \/ CliImport
  \/ ImportLoad
  \/ ImportNoDatabaseUrl
  \/ ImportRead
  \/ ImportReadFails
  \/ SchemaConnect
  \/ SchemaConnectFails
  \/ SchemaCreateTable
  \/ SchemaCreateIndex1
  \/ SchemaCreateIndex2
  \/ SchemaQueryFails
  \/ ImportConnect
  \/ ImportConnectFails
  \/ ImportUpsert
  \/ ImportUpsertFails
  \/ ImportFinish
  \/ ImportEndFails
  \/ ImportCatch

SpecCli == InitCli /\ [][NextCli]_vars

-----------------------------------------------------------------------------
(* scrapeJobDetails on the pages a fetch may answer *)

MaxLines == 4

ViewSimilar == <<"View", "Similar", "Jobs:">>
Subscribe == <<"Subscribe", "to", "Value", "Membership">>

\* the lines a body is made of: the title with blanks around it, an empty
\* line, a line of blanks, two texts, and a line with each end marker
BodyLines ==
  { <<Blank>> \o GoodHeading \o <<Blank>>,
    <<>>,
    <<Blank, Blank>>,
    <<Blank, "Manages", "grants", Blank>>,
    <<"Reports", Blank, "monthly">>,
    ViewSimilar \o <<"Officer">>,
    <<"Please">> \o Subscribe }

Bodies == UNION {[1..n -> BodyLines] : n \in 0..MaxLines}

\* the headings: the title, the title with a blank before it, no text
Headings == {{GoodHeading}, {<<Blank>> \o GoodHeading}, {<<>>}}

\* a location or deadline paragraph: missing, the label alone, the label
\* and blanks, the label and a value
Paragraphs(label, value) ==
  {{}, {<<label>>}, {<<label, Blank, Blank>>}, {<<label, Blank, value, Blank>>}}

\* the groups the sector expression captures: no match, or one or two
\* groups, each a sector or blanks only
SectorGroups == {<<"Health">>, <<Blank>>, <<Blank, "Education", Blank>>}
SectorMatches ==
  {{}} \cup {{<<g>>} : g \in SectorGroups}
       \cup {{<<g, h>>} : g \in SectorGroups, h \in SectorGroups}

\* pages that differ in heading and body, and pages that differ in the
\* location, deadline and sector elements
FetchedPages ==
  {[OkPage EXCEPT !.h1 = h, !.body = b] : h \in Headings, b \in Bodies}
  \cup {[OkPage EXCEPT !.location = l, !.deadline = d, !.sectorMatch = m] :
          l \in Paragraphs("Location:", "Lucknow"),
          d \in Paragraphs("Apply by:", "08 Feb 2026"),
          m \in SectorMatches}

InitExtract ==
  /\ ScrapeIdle
  /\ BootIdle
  /\ ImportIdle
  /\ CliIdle
  /\ exPc = "fetched"
  /\ exPage \in FetchedPages
  /\ exResult = <<>>

\* scrapeJobDetails after its page.goto
Extract ==
  /\ exPc = "fetched"
  /\ exPc' = "extracted"
  /\ exResult' = scrapeJobDetails(exPage, toString(MaxId))
  /\ UNCHANGED <<exPage, scrapeVars, bootVars, importVars, cliVars>>

NextExtract == Extract

SpecExtract == InitExtract /\ [][NextExtract]_vars

-----------------------------------------------------------------------------
(* Properties *)

\* C1: the identifier list accumulated by scanJobIdsParallel is strictly
\* descending by numeric identifier at every point of the scan and in the
\* returned result, whatever order the probes of a batch complete in.
C1_StrictlyDescending == StrictlyDescending(jobIds)

C1_Witness ==
  /\ pc = "harvest"
  /\ Len(jobIds) >= 3
  /\ \E a \in 1..Len(jobIds) : Len(jobIds[a]) = 2
  /\ \E a \in 1..Len(jobIds) : Len(jobIds[a]) = 1

\* C2: consecutiveInvalid is the number of invalid identifiers processed
\* since the last valid one, in descending identifier order and across
\* batch boundaries; it never exceeds the threshold; once it reaches the
\* threshold the scan has stopped; and the list is exactly the valid
\* identifiers processed, none of which lies below a run of
\* maxConsecutiveInvalid consecutive invalid identifiers.
C2_StoppingRule ==
  /\ consecutiveInvalid <= maxConsecutiveInvalid
  /\ consecutiveInvalid =
       Cardinality({id \in folded : \A j \in folded : j <= id => ~probeValid[j]})
  /\ consecutiveInvalid >= maxConsecutiveInvalid => ~keepScanning
  /\ Reported = {id \in folded : probeValid[id]}
  /\ \A id \in Reported : ~GapAbove(id)
  /\ (pc = "harvest" /\ consecutiveInvalid >= maxConsecutiveInvalid) =>
       \A id \in DOMAIN probeSt \ folded : id \notin Reported

C2_Witness ==
  /\ pc = "harvest"
  /\ consecutiveInvalid = maxConsecutiveInvalid
  /\ Len(jobIds) >= 1
  /\ \E id \in oracle : id \notin Reported /\ GapAbove(id)
  /\ \E id \in folded : ~probeValid[id] /\ ProbeBatch(id) >= 1

\* C3, as stated: for a limit k >= 1 and an oracle with at least k valid
\* identifiers at or below startId, the scanner returns exactly the k
\* highest valid identifiers.
C3_ExactlyKHighest ==
  \A k \in limit :
    (pc = "harvest" /\ k >= 1 /\ Cardinality(Valid) >= k) =>
       jobIds = [j \in 1..k |-> toString(Highest(Valid, k)[j])]

\* C3, amended: ... provided no run of maxConsecutiveInvalid consecutive
\* invalid identifiers lies between startId and the k-th highest valid
\* identifier; whenever the scanner returns.
C3_ExactlyKHighestWithoutGap ==
  \A k \in limit :
    (/\ pc = "harvest" /\ k >= 1 /\ Cardinality(Valid) >= k
     /\ ~GapAbove(Highest(Valid, k)[k])) =>
       jobIds = [j \in 1..k |-> toString(Highest(Valid, k)[j])]

C3_Witness ==
  /\ pc = "harvest"
  /\ limit = {2}
  /\ Len(jobIds) = 2
  /\ Cardinality(Valid) > 2
  /\ \E id \in folded : ~probeValid[id]

\* C4: whenever a limit is supplied, 0 included, the identifier list has at
\* most limit elements.
C4_AtMostLimit == \A n \in limit : Len(jobIds) <= n

\* C5: once a limit k >= 1 is supplied and the list holds k identifiers, no
\* further probe is started.
C5_NoProbeAfterLimit ==
  [][(\E n \in limit : n >= 1 /\ Len(jobIds) >= n) =>
        DOMAIN probeSt' = DOMAIN probeSt]_vars

\* C6: a failure of a probe, at any of its steps, is folded in as "not
\* valid" and never makes scanJobIdsParallel terminate with an error.
C6_ProbeFailureIsInvalid ==
  /\ \A id \in probeFailed : ~probeValid[id]
  /\ ~ScanFailed

\* C7: at most scanConcurrency probes and at most CONCURRENCY_LIMIT fetches
\* are outstanding, and no task of a later batch has been started while a
\* task of an earlier batch is unsettled.
C7_BoundedAndSequenced ==
  /\ Cardinality(Unsettled(probeSt)) <= scanConcurrency
  /\ Cardinality(Unsettled(itemSt)) <= CONCURRENCY_LIMIT
  /\ \A a, b \in DOMAIN probeSt :
        ProbeBatch(a) < ProbeBatch(b) => Settled(probeSt[a])
  /\ \A a, b \in DOMAIN itemSt :
        ItemBatch(a) < ItemBatch(b) => Settled(itemSt[a])
  /\ DOMAIN itemSt # {} => Unsettled(probeSt) = {}

C7_Witness ==
  /\ pc = "harvestAwait"
  /\ chunkStart >= CONCURRENCY_LIMIT
  /\ Cardinality(Unsettled(itemSt)) = CONCURRENCY_LIMIT
  /\ Cardinality(DOMAIN probeSt) > scanConcurrency

\* C8: a fault of one harvest item is converted to "no record" for that
\* item only: the harvest never fails, and the output holds exactly the
\* records of the other items.
C8_ItemFaultIsolated ==
  /\ ~HarvestFailed
  /\ pc = "done" =>
       Len(jobs) = Cardinality({k \in DOMAIN itemResult : itemResult[k] # <<>>})

\* C9: the externalIds of the harvested jobs are a subsequence of the
\* scanner's list, in the list's order.
C9_HarvestKeepsOrder ==
  /\ \A a \in 1..Len(jobs) : \E k \in 1..Len(jobIds) : jobIds[k] = jobs[a].externalId
  /\ \A a, b \in 1..Len(jobs) :
        a < b => Position(jobs[a].externalId) < Position(jobs[b].externalId)
  /\ \A o \in Range(output) : ExternalIds(o.jobs) = ExternalIds(jobs)

C9_Witness ==
  /\ pc = "done"
  /\ Len(jobs) >= 3
  /\ Len(jobs) < Len(jobIds)
  /\ \E k \in 1..CONCURRENCY_LIMIT : itemResult[k] = <<>>

\* C10: an identifier whose detail page is a soft-error page never appears
\* in jobs, and in every returned output totalJobs is the length of jobs,
\* which is the number of identifiers whose extraction returned a record.
C10_SoftErrorsExcluded ==
  /\ \A k \in softPages : \A a \in 1..Len(jobs) : jobs[a].externalId # jobIds[k]
  /\ \A o \in Range(output) :
        /\ o.totalJobs = Len(o.jobs)
        /\ o.totalJobs =
             Cardinality({k \in DOMAIN itemResult : itemResult[k] # <<>>})
        /\ \A k \in softPages :
             \A a \in 1..Len(o.jobs) : o.jobs[a].externalId # jobIds[k]

C10_Witness ==
  /\ pc = "done"
  /\ softPages # {}
  /\ \E o \in Range(output) : o.totalJobs >= 1

\* C11: every per-item page is closed by its own item, once, after the item
\* has finished: no probe and no harvest item is still at work on its page
\* when the browser is closed under it, and when scrapeJobs returns every
\* item has closed its page.
C11_PagesClosedByTheirItem ==
  /\ \A id \in DOMAIN probeSt : ProbeHoldsPage(id) => BrowserOpen
  /\ \A k \in DOMAIN itemSt : ItemHoldsPage(k) => BrowserOpen
  /\ pc = "done" =>
       /\ \A id \in DOMAIN probeSt : probeSt[id] = "resolved"
       /\ \A k \in DOMAIN itemSt : itemSt[k] = "resolved"

\* C12: whatever the navigation steps do, findMostRecentJobId never raises,
\* makes at most 3 attempts, and returns the identifier parsed in the first
\* attempt that yields one, otherwise the fallback 285461.
C12_BootstrapNeverRaises ==
  /\ bootPc # "raised"
  /\ Len(attemptLog) <= 3
  /\ bootPc = "returned" =>
       LET yields == {a \in 1..Len(attemptLog) : attemptLog[a] # {}}
       IN  IF yields = {} THEN bootResult = {285461}
           ELSE bootResult = attemptLog[CHOOSE a \in yields : \A b \in yields : a <= b]

\* the fields the DO UPDATE clause sets from the proposed row
MutableFields(row) ==
  <<row.title, row.organization, row.location, row.deadline, row.sectors,
    row.description, row.original_url>>

FieldsOf(job) ==
  <<job.title, job.organization, job.location, job.deadline, job.sectors,
    job.description, job.originalUrl>>

Imported(n) == importLog[n].outcome # "error"
Count(outcome) ==
  Cardinality({n \in 1..Len(importLog) : importLog[n].outcome = outcome})
LoopCompleted == pool.ended \/ importFailure = {"end"}

\* C13: the store never holds two rows of one externalId; an imported
\* record reports an insert exactly when its externalId was absent, an
\* update when it was present; and the row of an externalId carries the
\* mutable fields of the latest import of that externalId.
C13_IdempotentUpsert ==
  /\ \A i, j \in 1..Len(table) :
        table[i].external_id = table[j].external_id => i = j
  /\ \A n \in 1..Len(importLog) :
        Imported(n) =>
          /\ ~importLog[n].present => importLog[n].outcome = "insert"
          /\ importLog[n].present => importLog[n].outcome = "update"
  /\ \A n \in 1..Len(importLog) :
        LET job == importFile.jobs[n]
            later == {m \in (n + 1)..Len(importLog) :
                        Imported(m) /\ importFile.jobs[m].externalId = job.externalId}
        IN  Imported(n) /\ later = {} =>
              \E i \in 1..Len(table) :
                 /\ table[i].external_id = job.externalId
                 /\ MutableFields(table[i]) = FieldsOf(job)

C13_Witness ==
  /\ exitCode = {0}
  /\ \E n, m \in 1..Len(importLog) :
        /\ n < m
        /\ importFile.jobs[n].externalId = importFile.jobs[m].externalId
        /\ FieldsOf(importFile.jobs[n]) # FieldsOf(importFile.jobs[m])
        /\ importLog[n].outcome = "insert"
        /\ importLog[m].outcome = "update"

\* C14: a refused upsert is counted as an error and the loop goes on with
\* the next record: the counters are the numbers of inserts, updates and
\* errors among the records processed so far, in input order, and once the
\* loop has completed inserted + updated + errors is the number of records.
C14_EveryRecordCountedOnce ==
  /\ Len(importLog) = jobIndex
  /\ inserted = Count("insert")
  /\ updated = Count("update")
  /\ errors = Count("error")
  /\ LoopCompleted =>
       /\ jobIndex = Len(importFile.jobs)
       /\ inserted + updated + errors = Len(importFile.jobs)

C14_Witness ==
  /\ exitCode = {0}
  /\ Len(importLog) = MaxJobs
  /\ importLog[1].outcome = "error"
  /\ importLog[MaxJobs].outcome # "error"
  /\ errors = 1

\* C15: an upsert is issued only after createTableIfNotExists has resolved,
\* the table and both indexes being there; when schema creation fails no
\* upsert is issued and the process exits with code 1.
C15_SchemaBeforeUpserts ==
  /\ importLog # <<>> =>
       /\ schemaReady
       /\ tableExists
       /\ indexes = AllIndexes
  /\ importFailure = {"schema"} =>
       /\ importLog = <<>>
       /\ exitCode \subseteq {1}
       /\ importPc = "exited" => exitCode = {1}

C15_Witness ==
  /\ importFailure = {"schema"}
  /\ exitCode = {1}
  /\ tableExists
  /\ indexes # AllIndexes
  /\ importFile.jobs # <<>>

\* an import has been started: importJobs was called and reads its file
ImportStarted == inputFile # ""

\* C16: a run of the scrape command goes scan, harvest, write, import: the
\* artifact is written only after scrapeJobs has returned, no import
\* activity starts before it is written, and the import reads the file the
\* run wrote.
C16_PhasesInOrder ==
  /\ artifact # <<>> => pc = "done"
  /\ ImportStarted =>
       /\ artifact # <<>>
       /\ inputFile = OutputPath
       /\ \A content \in Range(artifact) : importFile.jobs = content.jobs

\* C17: without DATABASE_URL the run still goes through bootstrap, scan and
\* harvest: it does not exit before scrapeJobs has come to its end.
C17_MissingUrlFailsImportOnly ==
  (~databaseUrl /\ exitCode # {}) => pc \in {"done", "error"}

\* C18: when --limit is omitted scrapeJobs receives no limit; when --limit n
\* is given, at most n identifiers are discovered.
C18_LimitIsOptionalCap ==
  /\ (pc # "idle" /\ limitArg = {}) => limit = {}
  /\ pc \in {"harvesting", "done"} =>
       \A text \in limitArg : Len(jobIds) <= parseInt(text)

\* the trimmed lines of the page, and the page's trimmed title
Line(k) == Trim(exPage.body[k])
TrimmedTitle == Trim(InnerTextOr(exPage.h1, <<"Unknown", "Title">>))
IsTitleLine(k) == Line(k) = TrimmedTitle
IsMarkerLine(k) == Includes(Line(k), ViewSimilar) \/ Includes(Line(k), Subscribe)

\* the first line of a set of lines; past the last line when there is none
First(ks) ==
  IF ks = {} THEN Len(exPage.body) + 1 ELSE CHOOSE k \in ks : \A j \in ks : k <= j

\* the window: after the first title line, before the first marker line
Window ==
  {k \in 1..Len(exPage.body) :
     /\ First({j \in 1..Len(exPage.body) : IsTitleLine(j)}) < k
     /\ k < First({j \in 1..Len(exPage.body) : IsMarkerLine(j)})}

\* the lines of a set of positions that satisfy keep, in order
RECURSIVE LinesOf(_, _)
LinesOf(ks, k) ==
  IF k > Len(exPage.body) THEN <<>>
  ELSE IF k \in ks THEN <<Line(k)>> \o LinesOf(ks, k + 1)
  ELSE LinesOf(ks, k + 1)

\* C19: the description is exactly the trimmed non-empty lines of the
\* window, which begins after the first line equal to the title and ends
\* at the first line containing an end marker, joined by newlines.
C19_DescriptionIsTheWindow ==
  \A k \in 1..Len(exResult) :
     exResult[k].description = Join(LinesOf({j \in Window : Line(j) # <<>>}, 1))

\* nothing was extracted from a paragraph: it is missing, or blank after
\* its label
NothingIn(element, label) ==
  \A text \in element : \A k \in 1..Len(text) : text[k] \in {label, Blank}

\* no sector was extracted: no match, or blank groups only
NoSector(sectorMatch) ==
  \A groups \in sectorMatch :
     \A g \in 1..Len(groups) : \A k \in 1..Len(groups[g]) : groups[g][k] = Blank

\* C20: a record's deadline and location are non-empty, "Unknown" and
\* "India" when nothing was extracted; its sectors are a non-empty
\* sequence, ["General"] when no sector was extracted.
C20_DefaultsFillTheGaps ==
  \A k \in 1..Len(exResult) :
     LET job == exResult[k]
     IN  /\ job.deadline # <<>>
         /\ job.location # <<>>
         /\ job.sectors # <<>>
         /\ NothingIn(exPage.deadline, "Apply by:") => job.deadline = <<"Unknown">>
         /\ NothingIn(exPage.location, "Location:") => job.location = <<"India">>
         /\ NoSector(exPage.sectorMatch) => job.sectors = << <<"General">> >>

\* the identifiers a walk down from id returns, one identifier at a time,
\* ids being those found so far and run the invalid ones met in a row
RECURSIVE WalkDown(_, _, _)
WalkDown(id, ids, run) ==
  IF \E n \in limit : n # 0 /\ Len(ids) >= n THEN ids
  ELSE IF id \in Valid THEN WalkDown(id - 1, Append(ids, toString(id)), 0)
  ELSE IF run + 1 >= maxConsecutiveInvalid THEN ids
  ELSE WalkDown(id - 1, ids, run + 1)

\* C21: the list the scanner returns is the one a walk down from startId
\* gives for the limit and the validity oracle, whatever the order the
\* probes of a batch complete in; while a batch is in flight jobIds holds
\* identifiers of the batches before it only, all of them folded in.
C21_ResultIsAFunctionOfInputs ==
  /\ pc \in {"scanDone", "harvest"} => jobIds = WalkDown(startId, <<>>, 0)
  /\ pc = "scanAwait" =>
       /\ folded = (currentId + 1)..startId
       /\ \A k \in 1..Len(jobIds) :
            \E id \in folded : id \in Valid /\ jobIds[k] = toString(id)

C21_Witness ==
  /\ pc = "scanAwait"
  /\ jobIds # <<>>
  /\ probeSt[currentId] = "newPage"
  /\ probeSt[currentId - 1] = "resolved"
  /\ probeValid[currentId - 1]

\* C22: when every probe resolves the scanner returns, with its scan
\* context closed, from every startId, with and without a limit.
C22_ScanTerminatesContextClosed == <>(pc = "harvest" /\ ~scanContextOpen)

C22_Witness ==
  /\ pc = "harvest"
  /\ ~scanContextOpen
  /\ limit = {}
  /\ Len(jobIds) >= 2
  /\ currentId < 0

\* C23: called with a startId of 0 or more, the scanner never issues a
\* probe for an identifier below 0.
C23_NoProbeBelowZero == \A id \in DOMAIN probeSt : id >= 0

====
